---- MODULE Spec2Model ----
(***************************************************************************)
(* The client of the thyroid image analysis application as a state         *)
(* machine: the PredictionContext state, the useAnalysis hook              *)
(* (performAnalysis), the upload and preview components and the report     *)
(* export buttons.  The event loop is single-threaded: every handler runs  *)
(* to its next await as one step, and the setState calls of one such run   *)
(* are batched into one render (React 18).                                 *)
(***************************************************************************)
EXTENDS Integers, Sequences, FiniteSets, Bags, TLC

\* ------------------------------------------------------------------ bounds

\* performAnalysis invocations that pass the guard, over a whole run
MaxCalls == 3
\* export requests outstanding at one time
MaxExports == 2

\* ------------------------------------------------------------------ values

\* JavaScript null in a slot that holds an object
Null == [null |-> TRUE]
\* JavaScript null / undefined in a slot that holds a string
NullStr == "null"

MAX_FILE_SIZE == 10 * 1024 * 1024
ALLOWED_TYPES == {"image/png", "image/jpeg", "image/jpg"}

\* The files a user can drop (ext is the extension of name): two files the
\* validator accepts, one of a foreign type, one that is one byte too large,
\* and one with an image extension for which the browser reports no type.
Files ==
  { [name |-> "a.png", ext |-> ".png", type |-> "image/png",       size |-> 1536],
    [name |-> "b.jpg", ext |-> ".jpg", type |-> "image/jpeg",      size |-> MAX_FILE_SIZE],
    [name |-> "c.pdf", ext |-> ".pdf", type |-> "application/pdf", size |-> 1024],
    [name |-> "d.png", ext |-> ".png", type |-> "image/png",       size |-> MAX_FILE_SIZE + 1],
    [name |-> "e.png", ext |-> ".png", type |-> "",                size |-> 2048] }

\* The gradcam block of an analysis response (layer_used + three images).
GradcamBlocks == { [layer_used |-> "conv5_block16_concat"] }

\* The body of a 2xx response of POST /api/v1/analyze.  image is the file the
\* request carried (the response is the analysis of that file); gradcam is
\* the optional visualization block.
Responses(f) == [image : {f}, gradcam : GradcamBlocks \cup {Null}]

\* What the catch clause of performAnalysis can receive: err.response.data.detail
\* and err.message, each possibly absent.
EncodingError == [detail |-> NullStr, message |-> NullStr]
TransportErrors ==
  { [detail |-> NullStr, message |-> "timeout of 60000ms exceeded"],
    [detail |-> "Model not loaded", message |-> "Request failed with status code 503"],
    [detail |-> "", message |-> "Request failed with status code 500"] }

Toast(kind, msg) == [kind |-> kind, msg |-> msg]

\* ------------------------------------------------------------------ state

VARIABLES
  uploadedImage,     \* PredictionContext: the File, or Null
  predictionResult,  \* PredictionContext: the analysis response, or Null
  gradcamImages,     \* PredictionContext: the gradcam block, or Null
  isLoading,         \* PredictionContext
  error,             \* PredictionContext: the message, or NullStr
  calls,             \* performAnalysis invocations suspended at their await
  nCalls,            \* performAnalysis invocations that passed the guard
  loadingToasts,     \* 'Analyzing image...' toasts opened and not dismissed by performAnalysis
  loadingPDF,        \* DownloadButtons local state
  loadingJSON,       \* DownloadButtons local state
  exports,           \* handleDownloadPDF/JSON invocations suspended at their await (a bag)
  notices,           \* the toasts the last step emitted
  saved,             \* the file the last step handed to downloadBlob, or Null
  lastOp             \* the handler the last step ran, and its input

ctx == <<uploadedImage, predictionResult, gradcamImages, isLoading, error>>
hook == <<calls, nCalls, loadingToasts>>
buttons == <<loadingPDF, loadingJSON, exports>>
vars == <<uploadedImage, predictionResult, gradcamImages, isLoading, error,
          calls, nCalls, loadingToasts,
          loadingPDF, loadingJSON, exports, notices, saved, lastOp>>

Op(op, arg) == [op |-> op, arg |-> arg]

\* the five context fields, as lastOp records them before a step
Context ==
  [uploadedImage |-> uploadedImage, predictionResult |-> predictionResult,
   gradcamImages |-> gradcamImages, isLoading |-> isLoading, error |-> error]

Init ==
  /\ uploadedImage = Null
  /\ predictionResult = Null
  /\ gradcamImages = Null
  /\ isLoading = FALSE
  /\ error = NullStr
  /\ calls = <<>>
  /\ nCalls = 0
  /\ loadingToasts = 0
  /\ loadingPDF = FALSE
  /\ loadingJSON = FALSE
  /\ exports = EmptyBag
  /\ notices = <<>>
  /\ saved = Null
  /\ lastOp = Op("init", Null)

\* ------------------------------------------------------------------ helpers

RemoveAt(s, i) == [j \in 1..(Len(s) - 1) |-> IF j < i THEN s[j] ELSE s[j + 1]]

\* the validator without its size check
validateFile_NoSizeCheck(file) ==
  IF file = Null THEN [valid |-> FALSE, error |-> "No file provided"]
  ELSE IF file.type \notin ALLOWED_TYPES
    THEN [valid |-> FALSE, error |-> "Invalid file type. Please upload PNG, JPG, or JPEG."]
  ELSE [valid |-> TRUE, error |-> NullStr]

\* the validator with the size check ahead of the type check
validateFile_SizeFirst(file) ==
  IF file = Null THEN [valid |-> FALSE, error |-> "No file provided"]
  ELSE IF file.size > MAX_FILE_SIZE
    THEN [valid |-> FALSE, error |-> "File too large. Maximum size is 10MB."]
  ELSE IF file.type \notin ALLOWED_TYPES
    THEN [valid |-> FALSE, error |-> "Invalid file type. Please upload PNG, JPG, or JPEG."]
  ELSE [valid |-> TRUE, error |-> NullStr]

\* the validator turning away a file of exactly the maximum size
validateFile_SizeInclusive(file) ==
  IF file = Null THEN [valid |-> FALSE, error |-> "No file provided"]
  ELSE IF file.type \notin ALLOWED_TYPES
    THEN [valid |-> FALSE, error |-> "Invalid file type. Please upload PNG, JPG, or JPEG."]
  ELSE IF file.size >= MAX_FILE_SIZE
    THEN [valid |-> FALSE, error |-> "File too large. Maximum size is 10MB."]
  ELSE [valid |-> TRUE, error |-> NullStr]

\* validateFile(file): { valid, error }; { valid: true } carries no error
validateFile(file) ==
  IF file = Null THEN [valid |-> FALSE, error |-> "No file provided"]
  ELSE IF file.type \notin ALLOWED_TYPES
    THEN [valid |-> FALSE, error |-> "Invalid file type. Please upload PNG, JPG, or JPEG."]
  ELSE IF file.size > MAX_FILE_SIZE
    THEN [valid |-> FALSE, error |-> "File too large. Maximum size is 10MB."]
  ELSE [valid |-> TRUE, error |-> NullStr]

\* a || b on strings: the empty string and null are falsy
Falsy(s) == s = NullStr \/ s = ""

\* the chain written with the failure's own message first
ErrorMessage_MessageFirst(err) ==
  IF ~Falsy(err.message) THEN err.message
  ELSE IF ~Falsy(err.detail) THEN err.detail
  ELSE "Analysis failed"

\* err.response?.data?.detail || err.message || 'Analysis failed'
ErrorMessage(err) ==
  IF ~Falsy(err.detail) THEN err.detail
  ELSE IF ~Falsy(err.message) THEN err.message
  ELSE "Analysis failed"

\* MainContent mounts DownloadButtons only under predictionResult && !isLoading.
\* An unmount drops loadingPDF/loadingJSON; the finally clause of an export
\* still in flight then sets state on an instance that is gone.
Mounted == predictionResult # Null /\ ~isLoading
Orphaned(exps) ==
  LET S == {[e EXCEPT !.stale = TRUE] : e \in BagToSet(exps)}
  IN  [e \in S |-> CopiesIn(e, exps) + CopiesIn([e EXCEPT !.stale = FALSE], exps)]
Remount(exps, lp, lj) ==
  IF predictionResult' # Null /\ ~isLoading'
    THEN /\ exports' = exps
         /\ loadingPDF' = lp
         /\ loadingJSON' = lj
    ELSE /\ exports' = Orphaned(exps)
         /\ loadingPDF' = FALSE
         /\ loadingJSON' = FALSE


\* ------------------------------------------------------------------ PredictionContext

\* History only: each suspended call remembers that resetAnalysis ran after
\* it started.  No code reads the flag.
MarkReset(cs) == [i \in DOMAIN cs |-> [cs[i] EXCEPT !.reset = TRUE]]

\* resetAnalysis without setError(null)
resetAnalysis_KeepsError ==
  /\ uploadedImage' = Null
  /\ predictionResult' = Null
  /\ gradcamImages' = Null
  /\ isLoading' = FALSE
  /\ error' = error
  /\ calls' = MarkReset(calls)
  /\ notices' = <<>>
  /\ saved' = Null
  /\ lastOp' = Op("resetAnalysis", [before |-> Context])
  /\ UNCHANGED <<nCalls, loadingToasts>>
  /\ Remount(exports, loadingPDF, loadingJSON)

\* resetAnalysis(): five setters in one handler, one render
resetAnalysis ==
  /\ uploadedImage' = Null
  /\ predictionResult' = Null
  /\ gradcamImages' = Null
  /\ isLoading' = FALSE
  /\ error' = NullStr
  /\ calls' = MarkReset(calls)
  /\ notices' = <<>>
  /\ saved' = Null
  /\ lastOp' = Op("resetAnalysis", [before |-> Context])
  /\ UNCHANGED <<nCalls, loadingToasts>>
  /\ Remount(exports, loadingPDF, loadingJSON)

\* ------------------------------------------------------------------ useAnalysis

\* a guard clause that shows its toast and falls through instead of returning
performAnalysisRefused_NoReturn ==
  /\ nCalls < MaxCalls
  /\ isLoading' = TRUE
  /\ error' = NullStr
  /\ calls' = Append(calls, [image |-> uploadedImage, pc |-> "encoding",
                             requests |-> 0, reset |-> FALSE])
  /\ nCalls' = nCalls + 1
  /\ loadingToasts' = loadingToasts + 1
  /\ notices' = <<Toast("error", "Please upload an image first"),
                  Toast("loading", "Analyzing image...")>>
  /\ lastOp' = Op("performAnalysis", [image |-> Null])
  /\ saved' = Null
  /\ UNCHANGED <<uploadedImage, predictionResult, gradcamImages>>
  /\ Remount(exports, loadingPDF, loadingJSON)

\* performAnalysis(), the guard clause: one error toast, then return
performAnalysisRefused ==
  /\ notices' = <<Toast("error", "Please upload an image first")>>
  /\ lastOp' = Op("performAnalysis", [image |-> Null])
  /\ saved' = Null
  /\ UNCHANGED <<ctx, hook, buttons>>

\* performAnalysisStart without setError(null)
performAnalysisStart_KeepsError ==
  /\ nCalls < MaxCalls
  /\ isLoading' = TRUE
  /\ error' = error
  /\ calls' = Append(calls, [image |-> uploadedImage, pc |-> "encoding",
                             requests |-> 0, reset |-> FALSE])
  /\ nCalls' = nCalls + 1
  /\ loadingToasts' = loadingToasts + 1
  /\ notices' = <<Toast("loading", "Analyzing image...")>>
  /\ lastOp' = Op("performAnalysis", [image |-> uploadedImage])
  /\ saved' = Null
  /\ UNCHANGED <<uploadedImage, predictionResult, gradcamImages>>
  /\ Remount(exports, loadingPDF, loadingJSON)

\* performAnalysis() past the guard, up to its await: setIsLoading(true),
\* setError(null), the loading toast and the call of analyzeImage, which
\* suspends in fileToBase64
performAnalysisStart ==
  /\ nCalls < MaxCalls
  /\ isLoading' = TRUE
  /\ error' = NullStr
  /\ calls' = Append(calls, [image |-> uploadedImage, pc |-> "encoding",
                             requests |-> 0, reset |-> FALSE])
  /\ nCalls' = nCalls + 1
  /\ loadingToasts' = loadingToasts + 1
  /\ notices' = <<Toast("loading", "Analyzing image...")>>
  /\ lastOp' = Op("performAnalysis", [image |-> uploadedImage])
  /\ saved' = Null
  /\ UNCHANGED <<uploadedImage, predictionResult, gradcamImages>>
  /\ Remount(exports, loadingPDF, loadingJSON)

performAnalysis ==
  IF uploadedImage = Null THEN performAnalysisRefused ELSE performAnalysisStart

\* analyzeImage after fileToBase64 resolved: apiClient.post is issued, once
analyzeImagePost(i) ==
  /\ calls[i].pc = "encoding"
  /\ calls' = [calls EXCEPT ![i].pc = "awaiting", ![i].requests = @ + 1]
  /\ notices' = <<>>
  /\ saved' = Null
  /\ lastOp' = Op("analyzeImagePost", [call |-> calls[i]])
  /\ UNCHANGED <<ctx, nCalls, loadingToasts, buttons>>

\* performAnalysis resumed with the response body: the rest of the try block
\* and the finally clause
performAnalysisSuccess(i, result) ==
  /\ predictionResult' = result
  /\ gradcamImages' = IF result.gradcam # Null THEN result.gradcam ELSE gradcamImages
  /\ loadingToasts' = loadingToasts - 1
  /\ notices' = <<Toast("success", "Analysis completed successfully!")>>
  /\ isLoading' = FALSE
  /\ calls' = RemoveAt(calls, i)
  /\ lastOp' = Op("performAnalysisSuccess", [call |-> calls[i], result |-> result])
  /\ saved' = Null
  /\ UNCHANGED <<uploadedImage, error, nCalls>>
  /\ Remount(exports, loadingPDF, loadingJSON)

\* a catch clause that issues the request again instead of giving up
performAnalysisFailure_Retry(i, err) ==
  /\ calls[i].requests < 2
  /\ calls' = [calls EXCEPT ![i].pc = "awaiting", ![i].requests = @ + 1]
  /\ notices' = <<>>
  /\ saved' = Null
  /\ lastOp' = Op("performAnalysisFailure", [call |-> calls[i], err |-> err])
  /\ UNCHANGED <<ctx, nCalls, loadingToasts, buttons>>

\* the catch clause without the finally clause: isLoading stays set
performAnalysisFailure_NoFinally(i, err) ==
  /\ error' = ErrorMessage(err)
  /\ notices' = <<Toast("error", ErrorMessage(err))>>
  /\ isLoading' = isLoading
  /\ calls' = RemoveAt(calls, i)
  /\ lastOp' = Op("performAnalysisFailure", [call |-> calls[i], err |-> err])
  /\ saved' = Null
  /\ UNCHANGED <<uploadedImage, predictionResult, gradcamImages, nCalls,
                 loadingToasts>>
  /\ Remount(exports, loadingPDF, loadingJSON)

\* performAnalysis resumed with a rejection: the catch and the finally clause
performAnalysisFailure(i, err) ==
  /\ error' = ErrorMessage(err)
  /\ notices' = <<Toast("error", ErrorMessage(err))>>
  /\ isLoading' = FALSE
  /\ calls' = RemoveAt(calls, i)
  /\ lastOp' = Op("performAnalysisFailure", [call |-> calls[i], err |-> err])
  /\ saved' = Null
  /\ UNCHANGED <<uploadedImage, predictionResult, gradcamImages, nCalls,
                 loadingToasts>>
  /\ Remount(exports, loadingPDF, loadingJSON)

\* FileReader.onerror: fileToBase64 rejects, analyzeImage rethrows
EncodingFails ==
  \E i \in DOMAIN calls :
    /\ calls[i].pc = "encoding"
    /\ performAnalysisFailure(i, EncodingError)

EncodingDone == \E i \in DOMAIN calls : analyzeImagePost(i)

\* the server answers 2xx
ResponseArrives ==
  \E i \in DOMAIN calls :
    /\ calls[i].pc = "awaiting"
    /\ \E result \in Responses(calls[i].image) : performAnalysisSuccess(i, result)

\* the request fails: no connection, the 60 s timeout, a non-2xx status
RequestFails ==
  \E i \in DOMAIN calls :
    /\ calls[i].pc = "awaiting"
    /\ \E err \in TransportErrors : performAnalysisFailure(i, err)


\* ------------------------------------------------------------------ ImageUpload

\* onDrop(acceptedFiles): nothing accepted, a validation error, or
\* resetAnalysis() followed by setUploadedImage(file) in the same render.
\* The drop zone passes the files it turned away as a second argument, which
\* the handler does not read.
onDrop(acceptedFiles, fileRejections) ==
  IF Len(acceptedFiles) = 0
    THEN /\ notices' = <<>>
         /\ saved' = Null
         /\ lastOp' = Op("onDrop", [file |-> Null, rejected |-> fileRejections])
         /\ UNCHANGED <<ctx, hook, buttons>>
  ELSE IF ~validateFile(acceptedFiles[1]).valid
    THEN /\ notices' = <<Toast("error", validateFile(acceptedFiles[1]).error)>>
         /\ saved' = Null
         /\ lastOp' = Op("onDrop", [file |-> acceptedFiles[1], rejected |-> fileRejections])
         /\ UNCHANGED <<ctx, hook, buttons>>
    ELSE /\ predictionResult' = Null
         /\ gradcamImages' = Null
         /\ isLoading' = FALSE
         /\ error' = NullStr
         /\ uploadedImage' = acceptedFiles[1]
         /\ notices' = <<Toast("success", "Image uploaded successfully!")>>
         /\ saved' = Null
         /\ lastOp' = Op("onDrop", [file |-> acceptedFiles[1], rejected |-> fileRejections])
         /\ calls' = MarkReset(calls)
         /\ UNCHANGED <<nCalls, loadingToasts>>
         /\ Remount(exports, loadingPDF, loadingJSON)

\* a drop zone that stays on display next to the preview
DropZoneRendered_Always == TRUE

\* the drop zone is rendered only while no image is held
DropZoneRendered == uploadedImage = Null

\* useDropzone({accept, maxSize}): a file is accepted when its type is one of
\* the keys of accept or its name ends in one of the listed extensions
fileAccepted(file) ==
  \/ file.type \in {"image/png", "image/jpeg"}
  \/ file.ext \in {".png", ".jpg", ".jpeg"}

\* ... and when it is not larger than maxSize
fileMatchSize(file) == file.size <= 10 * 1024 * 1024

\* a drop of one file, or of nothing: the drop zone sorts the files into the
\* accepted and the rejected ones and calls onDrop in either case
Drop ==
  /\ DropZoneRendered
  /\ \E files \in {<<>>} \cup {<<f>> : f \in Files} :
       onDrop(SelectSeq(files, LAMBDA f : fileAccepted(f) /\ fileMatchSize(f)),
              SelectSeq(files, LAMBDA f : ~(fileAccepted(f) /\ fileMatchSize(f))))

\* ------------------------------------------------------------------ ImagePreview

\* the preview is rendered only while an image is held; both of its buttons
\* carry disabled={isLoading}
\* the buttons without disabled={isLoading}
RemoveEnabled_IgnoresLoading == uploadedImage # Null
AnalyzeEnabled_IgnoresLoading == uploadedImage # Null

RemoveEnabled == uploadedImage # Null /\ ~isLoading
AnalyzeEnabled == uploadedImage # Null /\ ~isLoading

\* onClick={resetAnalysis}
RemoveClick ==
  /\ RemoveEnabled
  /\ resetAnalysis

\* onClick={performAnalysis}
AnalyzeClick ==
  /\ AnalyzeEnabled
  /\ performAnalysis

\* ------------------------------------------------------------------ DownloadButtons

\* the buttons are rendered under predictionResult && uploadedImage, in a
\* mounted component, and both carry disabled={loadingPDF || loadingJSON}
\* the buttons of a component that stayed on display during an analysis
ExportEnabled_WhileLoading ==
  /\ predictionResult # Null
  /\ uploadedImage # Null
  /\ ~(loadingPDF \/ loadingJSON)

ExportEnabled ==
  /\ Mounted
  /\ predictionResult # Null
  /\ uploadedImage # Null
  /\ ~(loadingPDF \/ loadingJSON)

\* handleDownloadPDF / handleDownloadJSON up to the await: setLoading(true) and
\* the call of downloadPDFReport / downloadJSONReport, which suspends in
\* fileToBase64
handleDownload(kind) ==
  /\ BagCardinality(exports) < MaxExports
  /\ loadingPDF' = IF kind = "pdf" THEN TRUE ELSE loadingPDF
  /\ loadingJSON' = IF kind = "json" THEN TRUE ELSE loadingJSON
  /\ exports' = exports (+) SetToBag({[kind |-> kind, image |-> uploadedImage,
                                       result |-> predictionResult,
                                       pc |-> "encoding", stale |-> FALSE]})
  /\ notices' = <<>>
  /\ saved' = Null
  /\ lastOp' = Op("handleDownload", [kind |-> kind])
  /\ UNCHANGED <<ctx, hook>>

ExportClick ==
  /\ ExportEnabled
  /\ \E kind \in {"pdf", "json"} : handleDownload(kind)

\* downloadPDFReport / downloadJSONReport after fileToBase64 resolved
downloadReportPost(e) ==
  /\ e.pc = "encoding"
  /\ exports' = (exports (-) SetToBag({e})) (+) SetToBag({[e EXCEPT !.pc = "awaiting"]})
  /\ notices' = <<>>
  /\ saved' = Null
  /\ lastOp' = Op("downloadReportPost", [kind |-> e.kind])
  /\ UNCHANGED <<ctx, hook, loadingPDF, loadingJSON>>

\* the finally clause: setLoadingPDF(false) / setLoadingJSON(false) reach the
\* component instance that started the export, if it is still mounted
handleDownloadFinally(e) ==
  /\ exports' = exports (-) SetToBag({e})
  /\ loadingPDF' = IF e.kind = "pdf" /\ ~e.stale THEN FALSE ELSE loadingPDF
  /\ loadingJSON' = IF e.kind = "json" /\ ~e.stale THEN FALSE ELSE loadingJSON

\* the blob arrived: generateTimestampedFilename, downloadBlob, success toast
handleDownloadSuccess(e) ==
  /\ e.pc = "awaiting"
  /\ saved' = [kind |-> e.kind, image |-> e.image, result |-> e.result]
  /\ notices' = <<Toast("success",
                        IF e.kind = "pdf"
                          THEN "PDF report downloaded successfully!"
                          ELSE "JSON report downloaded successfully!")>>
  /\ lastOp' = Op("handleDownloadSuccess", [kind |-> e.kind])
  /\ handleDownloadFinally(e)
  /\ UNCHANGED <<ctx, hook>>

\* the catch clause also recording its message in the context
handleDownloadFailure_SetsError(e) ==
  /\ saved' = Null
  /\ notices' = <<Toast("error", "Failed to download report")>>
  /\ error' = "Failed to download report"
  /\ lastOp' = Op("handleDownloadFailure", [kind |-> e.kind])
  /\ handleDownloadFinally(e)
  /\ UNCHANGED <<uploadedImage, predictionResult, gradcamImages, isLoading, hook>>

\* the catch clause falling through to the save
handleDownloadFailure_StillSaves(e) ==
  /\ saved' = [kind |-> e.kind, image |-> e.image, result |-> e.result]
  /\ notices' = <<Toast("error",
                        IF e.kind = "pdf"
                          THEN "Failed to download PDF report"
                          ELSE "Failed to download JSON report")>>
  /\ lastOp' = Op("handleDownloadFailure", [kind |-> e.kind])
  /\ handleDownloadFinally(e)
  /\ UNCHANGED <<ctx, hook>>

\* the encoding or the request failed: error toast, nothing saved
handleDownloadFailure(e) ==
  /\ saved' = Null
  /\ notices' = <<Toast("error",
                        IF e.kind = "pdf"
                          THEN "Failed to download PDF report"
                          ELSE "Failed to download JSON report")>>
  /\ lastOp' = Op("handleDownloadFailure", [kind |-> e.kind])
  /\ handleDownloadFinally(e)
  /\ UNCHANGED <<ctx, hook>>

ExportEncodingDone == \E e \in BagToSet(exports) : downloadReportPost(e)
ExportArrives == \E e \in BagToSet(exports) : handleDownloadSuccess(e)
ExportFails == \E e \in BagToSet(exports) : handleDownloadFailure(e)

\* ------------------------------------------------------------------ specifications

\* What a user can do through the rendered, enabled controls, and what the
\* pending promises can do.
Next ==
  \/ Drop
  \/ RemoveClick
  \/ AnalyzeClick
  \/ EncodingDone
  \/ EncodingFails
  \/ ResponseArrives
  \/ RequestFails
  \/ ExportClick
  \/ ExportEncodingDone
  \/ ExportArrives
  \/ ExportFails

Spec == Init /\ [][Next]_vars

\* The operations of the context and of the hook invoked in any order,
\* without the guards the rendered controls add.
InvokePerformAnalysis == performAnalysis
InvokeResetAnalysis == resetAnalysis
InvokeOnDrop == \E fs \in {<<>>} \cup {<<f>> : f \in Files} : onDrop(fs, <<>>)

NextOps ==
  \/ InvokeOnDrop
  \/ InvokeResetAnalysis
  \/ InvokePerformAnalysis
  \/ EncodingDone
  \/ EncodingFails
  \/ ResponseArrives
  \/ RequestFails

SpecOps == Init /\ [][NextOps]_vars


\* ------------------------------------------------------------------ claims

EmptyContext ==
  [uploadedImage |-> Null, predictionResult |-> Null, gradcamImages |-> Null,
   isLoading |-> FALSE, error |-> NullStr]

InFlight == {i \in DOMAIN calls : calls[i].pc \in {"encoding", "awaiting"}}

\* C1: through the rendered controls, no result and no gradcam block is held
\* while no image is held.
C1_NoResultWithoutImage ==
  uploadedImage = Null => predictionResult = Null /\ gradcamImages = Null

\* Remove was clicked on a session that held a result and a gradcam block.
C1_Witness ==
  /\ lastOp.op = "resetAnalysis"
  /\ lastOp.arg.before.predictionResult # Null
  /\ lastOp.arg.before.gradcamImages # Null
  /\ uploadedImage = Null

\* C2 (as claimed): after a performAnalysis call whose request failed,
\* isLoading is false, predictionResult is null and error is non-null.
C2_FailureLeavesResultNull ==
  lastOp.op = "performAnalysisFailure"
    => ~isLoading /\ predictionResult = Null /\ error # NullStr

\* C3: a performAnalysis call with an image sets isLoading and clears error
\* when it starts; when its request succeeds, isLoading goes from true to
\* false, predictionResult becomes the response and error is null.
C3_SuccessInstallsResult ==
  [][ /\ (lastOp'.op = "performAnalysis" /\ uploadedImage # Null)
           => (isLoading' /\ error' = NullStr)
      /\ lastOp'.op = "performAnalysisSuccess"
           => /\ isLoading /\ ~isLoading'
              /\ predictionResult' = lastOp'.arg.result
              /\ predictionResult' # Null
              /\ error' = NullStr ]_vars

\* A request succeeded after an earlier attempt had failed (the failed attempt
\* left its loading toast open).
C3_Witness ==
  /\ lastOp.op = "performAnalysisSuccess"
  /\ loadingToasts > 0
  /\ predictionResult = lastOp.arg.result
  /\ error = NullStr

\* C4: through the rendered controls at most one performAnalysis call is
\* outstanding, isLoading is set while it is, and Analyze, Remove and the drop
\* zone are all unavailable meanwhile.
C4_OneAnalysisInFlight ==
  /\ Cardinality(InFlight) <= 1
  /\ InFlight # {} => isLoading /\ ~AnalyzeEnabled /\ ~RemoveEnabled /\ ~DropZoneRendered

\* The request of a second analysis of the session is awaiting its response.
C4_Witness ==
  /\ nCalls >= 2
  /\ Len(calls) = 1
  /\ calls[1].pc = "awaiting"

\* C5 (as claimed): the response of a call that was in flight when
\* resetAnalysis ran is not applied when it arrives.
C5_StaleResponseDropped ==
  [][ (lastOp'.op = "performAnalysisSuccess" /\ lastOp'.arg.call.reset)
        => (predictionResult' = predictionResult /\ gradcamImages' = gradcamImages) ]_vars

\* C6 (as claimed): gradcamImages is held only if the response held as
\* predictionResult contained a gradcam block.
C6_GradcamFromCurrentResult ==
  gradcamImages # Null => predictionResult # Null /\ predictionResult.gradcam # Null

\* C7: performAnalysis with no image held changes no context field, starts no
\* call, issues no request and emits exactly the one error toast.
C7_RefusedWithoutImage ==
  [][ (lastOp'.op = "performAnalysis" /\ uploadedImage = Null)
        => /\ UNCHANGED <<ctx, calls, nCalls, loadingToasts>>
           /\ notices' = <<Toast("error", "Please upload an image first")>> ]_vars

\* performAnalysis was refused in a session that had run an analysis before.
C7_Witness ==
  /\ lastOp = Op("performAnalysis", [image |-> Null])
  /\ uploadedImage = Null
  /\ nCalls > 0
  /\ Len(notices) = 1

\* C8: a failed analysis leaves the image in place, clears isLoading and
\* leaves Analyze enabled for that image.
C8_FailureKeepsSessionUsable ==
  [][ lastOp'.op = "performAnalysisFailure"
        => /\ uploadedImage' = uploadedImage
           /\ uploadedImage' = lastOp'.arg.call.image
           /\ ~isLoading'
           /\ AnalyzeEnabled' ]_vars

\* A request failed with a non-2xx status and Analyze is enabled again.
C8_Witness ==
  /\ lastOp.op = "performAnalysisFailure"
  /\ lastOp.arg.err.detail # NullStr
  /\ uploadedImage = lastOp.arg.call.image
  /\ AnalyzeEnabled

\* C9: resetAnalysis, from any state, yields the empty context in one step,
\* and run again right after itself it changes no context field.
C9_ResetClearsAll ==
  [][ lastOp'.op = "resetAnalysis"
        => /\ Context' = EmptyContext
           /\ lastOp.op = "resetAnalysis" => ctx' = ctx ]_vars

\* resetAnalysis ran on a session holding a result and an error, with a call
\* in flight.
C9_Witness ==
  /\ lastOp.op = "resetAnalysis"
  /\ lastOp.arg.before.predictionResult # Null
  /\ lastOp.arg.before.error # NullStr
  /\ calls # <<>>
  /\ Context = EmptyContext

\* C10: a performAnalysis call has issued one request once its encoding is
\* done and none before; only the step that ends an encoding issues a request,
\* and it issues one; a failure ends its call and issues none.
C10_OneRequestPerCall ==
  /\ [](\A i \in DOMAIN calls :
          calls[i].requests = IF calls[i].pc = "awaiting" THEN 1 ELSE 0)
  /\ [][ /\ lastOp'.op = "analyzeImagePost"
              => /\ Len(calls') = Len(calls)
                 /\ \E i \in DOMAIN calls :
                      /\ calls'[i].requests = calls[i].requests + 1
                      /\ \A k \in DOMAIN calls \ {i} : calls'[k] = calls[k]
         /\ lastOp'.op = "performAnalysisFailure"
              => /\ Len(calls') = Len(calls) - 1
                 /\ \A k \in DOMAIN calls' :
                      \E i \in DOMAIN calls : calls'[k].requests = calls[i].requests
         /\ lastOp'.op \notin {"analyzeImagePost", "performAnalysisFailure"}
              => \A k \in DOMAIN calls' :
                   calls'[k].requests = 0 \/ (k \in DOMAIN calls /\ calls'[k].requests <= 1) ]_vars

\* A second analysis of the session failed after its one request; no call is
\* left to issue another.
C10_Witness ==
  /\ lastOp.op = "performAnalysisFailure"
  /\ lastOp.arg.call.requests = 1
  /\ calls = <<>>
  /\ nCalls >= 2

\* ------------------------------------------------------------------ C11

\* The UI specification with what the platform guarantees about a pending
\* promise: FileReader ends in onload or onerror, and a request ends in a
\* response, an error or the 60 s timeout of apiClient.
Fairness ==
  /\ WF_vars(EncodingDone \/ EncodingFails)
  /\ WF_vars(ResponseArrives \/ RequestFails)

SpecLive == Init /\ [][Next]_vars /\ Fairness

\* C11: whenever isLoading is true it is false again later, on every path.
C11_LoadingEnds == isLoading ~> ~isLoading

\* An analysis ended by the request timeout, with isLoading false again.
C11_Witness ==
  /\ lastOp.op = "performAnalysisFailure"
  /\ lastOp.arg.err.message = "timeout of 60000ms exceeded"
  /\ lastOp.arg.call.pc = "awaiting"
  /\ ~isLoading

\* ------------------------------------------------------------------ C12

\* C12: after a failed analysis the error field holds the server's detail if
\* the failure carries a non-empty one, else the failure's message if it has
\* a non-empty one, else 'Analysis failed'; the one notice of the step is an
\* error toast with that same text, and the text is neither null nor empty.
C12_ErrorText ==
  lastOp.op = "performAnalysisFailure" =>
    /\ \/ /\ lastOp.arg.err.detail \notin {NullStr, ""}
          /\ error = lastOp.arg.err.detail
       \/ /\ lastOp.arg.err.detail \in {NullStr, ""}
          /\ lastOp.arg.err.message \notin {NullStr, ""}
          /\ error = lastOp.arg.err.message
       \/ /\ lastOp.arg.err.detail \in {NullStr, ""}
          /\ lastOp.arg.err.message \in {NullStr, ""}
          /\ error = "Analysis failed"
    /\ notices = <<Toast("error", error)>>
    /\ error \notin {NullStr, ""}

\* A non-2xx failure that carries both a detail and a message left the detail
\* in the error field.
C12_Witness ==
  /\ lastOp.op = "performAnalysisFailure"
  /\ lastOp.arg.err.detail = "Model not loaded"
  /\ lastOp.arg.err.message # NullStr
  /\ error = "Model not loaded"

\* ------------------------------------------------------------------ C13

\* the steps that begin a new analysis or reset the session (an accepted drop
\* calls resetAnalysis)
NewAnalysisOrReset ==
  \/ lastOp'.op = "performAnalysis" /\ uploadedImage # Null
  \/ lastOp'.op = "resetAnalysis"
  \/ lastOp'.op = "onDrop" /\ notices' = <<Toast("success", "Image uploaded successfully!")>>

\* C13: an error that is set stays as it is through every step that does not
\* begin a new analysis or reset the session; a drop that installs no image
\* and every step of an export leave the error field alone; the start of
\* performAnalysis with an image and resetAnalysis clear it.
C13_ErrorPersists ==
  [][/\ (error # NullStr /\ ~NewAnalysisOrReset) => error' = error
     /\ (lastOp'.op = "onDrop" /\ ~NewAnalysisOrReset) => error' = error
     /\ lastOp'.op \in {"handleDownload", "downloadReportPost",
                        "handleDownloadSuccess", "handleDownloadFailure"}
          => error' = error
     /\ (lastOp'.op = "performAnalysis" /\ uploadedImage # Null) => error' = NullStr
     /\ lastOp'.op = "resetAnalysis" => error' = NullStr]_vars

\* An export failed while the error of a failed analysis was on display, and
\* the error is still there.
C13_Witness ==
  /\ lastOp.op = "handleDownloadFailure"
  /\ error # NullStr

\* ------------------------------------------------------------------ C14

\* C14: an export starts only in a state where a result is held, an image is
\* held and no analysis is loading.
C14_ExportPrecondition ==
  [][lastOp'.op = "handleDownload" =>
       /\ predictionResult # Null
       /\ uploadedImage # Null
       /\ ~isLoading]_vars

\* A PDF export was just started from a held result and image.
C14_Witness ==
  /\ lastOp = Op("handleDownload", [kind |-> "pdf"])
  /\ loadingPDF
  /\ predictionResult # Null
  /\ uploadedImage # Null
  /\ ~isLoading

\* ------------------------------------------------------------------ C15

\* the steps of an export
ExportStep ==
  lastOp'.op \in {"handleDownload", "downloadReportPost",
                  "handleDownloadSuccess", "handleDownloadFailure"}

\* C15: every step of an export, successful or failed, leaves the five fields
\* of the context as they were; a failed export saves nothing and shows
\* exactly one notice, an error.
C15_ExportLeavesContext ==
  [][/\ ExportStep => UNCHANGED ctx
     /\ lastOp'.op = "handleDownloadFailure" =>
          /\ saved' = Null
          /\ Len(notices') = 1
          /\ notices'[1].kind = "error"]_vars

\* A JSON export failed: nothing was saved and one error notice is shown,
\* with the result and image still held.
C15_Witness ==
  /\ lastOp = Op("handleDownloadFailure", [kind |-> "json"])
  /\ saved = Null
  /\ notices = <<Toast("error", "Failed to download JSON report")>>
  /\ predictionResult # Null
  /\ uploadedImage # Null

\* ------------------------------------------------------------------ validateFile

\* The candidate files: every size within MaxDelta bytes of zero and of the
\* maximum, and one far beyond it, under the accepted types and under types
\* the validator does not list (among them an accepted type in capitals and
\* the empty type of a file the browser cannot classify); and no file at all.
MaxDelta == 3

MimeTypes ==
  ALLOWED_TYPES \cup {"image/gif", "image/webp", "image/svg+xml", "IMAGE/PNG",
                      "application/pdf", "text/plain", ""}

Sizes ==
  (0 .. MaxDelta)
    \cup ((MAX_FILE_SIZE - MaxDelta) .. (MAX_FILE_SIZE + MaxDelta))
    \cup {2 * MAX_FILE_SIZE}

Candidates == {Null} \cup [type : MimeTypes, size : Sizes]

\* one call of validateFile on a candidate; the session is not involved
CallValidateFile ==
  /\ \E file \in Candidates :
       lastOp' = Op("validateFile", [file |-> file, result |-> validateFile(file)])
  /\ UNCHANGED <<ctx, hook, buttons, notices, saved>>

SpecValidate == Init /\ [][CallValidateFile]_vars

\* the last step validated a file (not a missing one)
Validated == lastOp.op = "validateFile" /\ lastOp.arg.file # Null

\* ------------------------------------------------------------------ C16

\* C16 as stated: every file larger than 10485760 bytes is rejected with the
\* size message, whatever its type.
C16_SizeErrorWhateverType ==
  (Validated /\ lastOp.arg.file.size > 10485760) =>
    lastOp.arg.result = [valid |-> FALSE, error |-> "File too large. Maximum size is 10MB."]

\* C16, amended: every file larger than 10485760 bytes is rejected; the
\* message is the size message when the type is an accepted one and the type
\* message otherwise.
C16_OversizeRejected ==
  (Validated /\ lastOp.arg.file.size > 10485760) =>
    /\ ~lastOp.arg.result.valid
    /\ lastOp.arg.file.type \in {"image/png", "image/jpeg", "image/jpg"}
         => lastOp.arg.result.error = "File too large. Maximum size is 10MB."
    /\ lastOp.arg.file.type \notin {"image/png", "image/jpeg", "image/jpg"}
         => lastOp.arg.result.error = "Invalid file type. Please upload PNG, JPG, or JPEG."

\* A JPEG one byte over the maximum was rejected with the size message.
C16_Witness ==
  /\ Validated
  /\ lastOp.arg.file = [type |-> "image/jpeg", size |-> 10485761]
  /\ lastOp.arg.result.error = "File too large. Maximum size is 10MB."

\* ------------------------------------------------------------------ C17

\* C17: every file whose type is not image/png, image/jpeg or image/jpg is
\* rejected with the type message, whatever its size; a missing file is
\* rejected as missing before anything else is looked at, and the size
\* message is given only to files of an accepted type.
C17_TypeErrorWhateverSize ==
  /\ (Validated /\ lastOp.arg.file.type \notin {"image/png", "image/jpeg", "image/jpg"}) =>
       lastOp.arg.result =
         [valid |-> FALSE, error |-> "Invalid file type. Please upload PNG, JPG, or JPEG."]
  /\ (lastOp.op = "validateFile" /\ lastOp.arg.file = Null) =>
       lastOp.arg.result = [valid |-> FALSE, error |-> "No file provided"]
  /\ (Validated /\ lastOp.arg.result.error = "File too large. Maximum size is 10MB.") =>
       lastOp.arg.file.type \in {"image/png", "image/jpeg", "image/jpg"}

\* A PDF twice the maximum size was rejected with the type message.
C17_Witness ==
  /\ Validated
  /\ lastOp.arg.file = [type |-> "application/pdf", size |-> 20971520]
  /\ lastOp.arg.result.error = "Invalid file type. Please upload PNG, JPG, or JPEG."

\* ------------------------------------------------------------------ C18

\* C18: a file of an accepted type with a size from 0 to 10485760 inclusive
\* is valid and carries no error; nothing else is valid.
C18_ValidExactly ==
  lastOp.op = "validateFile" =>
    /\ lastOp.arg.result.valid <=>
         /\ lastOp.arg.file # Null
         /\ lastOp.arg.file.type \in {"image/png", "image/jpeg", "image/jpg"}
         /\ lastOp.arg.file.size >= 0
         /\ lastOp.arg.file.size <= 10485760
    /\ lastOp.arg.result.valid => lastOp.arg.result.error = NullStr

\* An image/jpg of exactly the maximum size was found valid.
C18_Witness ==
  /\ Validated
  /\ lastOp.arg.file = [type |-> "image/jpg", size |-> 10485760]
  /\ lastOp.arg.result = [valid |-> TRUE, error |-> NullStr]

\* ------------------------------------------------------------------ C19

\* the files of the drop that just happened: the one the handler looked at,
\* or else the ones the drop zone turned away
DroppedFiles ==
  IF lastOp'.arg.file # Null THEN {lastOp'.arg.file}
  ELSE {lastOp'.arg.rejected[i] : i \in DOMAIN lastOp'.arg.rejected}

\* C19: a drop of a file that fails validateFile changes nothing in the
\* session (no image installed, no request made) and shows exactly one
\* notice, an error with the validator's message.
C19_RejectedDropReported ==
  [][lastOp'.op = "onDrop" =>
       \A f \in DroppedFiles :
         ~validateFile(f).valid =>
           /\ UNCHANGED <<ctx, hook, buttons>>
           /\ notices' = <<Toast("error", validateFile(f).error)>>]_vars

\* ------------------------------------------------------------------ getRiskColor

\* Confidence scores are counted in hundredths (0.75 is 75, 0.25 is 25; both
\* are exact in binary floating point, so the comparisons of the code are the
\* comparisons of the integers).  Scores just outside [0, 1] are included.
Confidences == (0 - 5) .. 105

\* the class the model reports (0 benign, 1 malignant) and numbers it should
\* never report
PredictionClasses == (0 - 1) .. 3

\* the four colour themes (Tailwind class names)
colorThemes ==
  [red |-> [bg |-> "bg-red-50 dark:bg-red-900/20", border |-> "border-red-500",
            text |-> "text-red-700 dark:text-red-400", icon |-> "text-red-600",
            badge |-> "bg-red-100 dark:bg-red-900 text-red-800 dark:text-red-200"],
   orange |-> [bg |-> "bg-orange-50 dark:bg-orange-900/20", border |-> "border-orange-500",
               text |-> "text-orange-700 dark:text-orange-400", icon |-> "text-orange-600",
               badge |-> "bg-orange-100 dark:bg-orange-900 text-orange-800 dark:text-orange-200"],
   green |-> [bg |-> "bg-green-50 dark:bg-green-900/20", border |-> "border-green-500",
              text |-> "text-green-700 dark:text-green-400", icon |-> "text-green-600",
              badge |-> "bg-green-100 dark:bg-green-900 text-green-800 dark:text-green-200"],
   blue |-> [bg |-> "bg-blue-50 dark:bg-blue-900/20", border |-> "border-blue-500",
             text |-> "text-blue-700 dark:text-blue-400", icon |-> "text-blue-600",
             badge |-> "bg-blue-100 dark:bg-blue-900 text-blue-800 dark:text-blue-200"]]

\* the thresholds compared strictly
getRiskColor_StrictThreshold(predictionClass, confidenceScore) ==
  IF predictionClass = 1
    THEN (IF confidenceScore > 75 THEN colorThemes.red ELSE colorThemes.orange)
    ELSE (IF confidenceScore < 25 THEN colorThemes.green ELSE colorThemes.blue)

\* getRiskColor(predictionClass, confidenceScore), the score in hundredths
getRiskColor(predictionClass, confidenceScore) ==
  IF predictionClass = 1
    THEN (IF confidenceScore >= 75 THEN colorThemes.red ELSE colorThemes.orange)
    ELSE (IF confidenceScore <= 25 THEN colorThemes.green ELSE colorThemes.blue)

\* one call of getRiskColor; the session is not involved
CallGetRiskColor ==
  /\ \E c \in PredictionClasses, s \in Confidences :
       lastOp' = Op("getRiskColor",
                    [predictionClass |-> c, confidenceScore |-> s,
                     result |-> getRiskColor(c, s)])
  /\ UNCHANGED <<ctx, hook, buttons, notices, saved>>

SpecRisk == Init /\ [][CallGetRiskColor]_vars

\* ------------------------------------------------------------------ C20

C21_ReadmeBands ==
  lastOp.op = "getRiskColor" =>
    LET s == lastOp.arg.confidenceScore
        r == lastOp.arg.result
    IN /\ r = colorThemes.green => s <= 25
       /\ r = colorThemes.blue => (25 < s /\ s < 50)
       /\ r = colorThemes.orange => (50 <= s /\ s < 75)
       /\ r = colorThemes.red => s >= 75

\* ------------------------------------------------------------------ generateTimestampedFilename

\* Strings that are taken apart are sequences of one-character strings.
DigitChars == <<"0", "1", "2", "3", "4", "5", "6", "7", "8", "9">>

Letters ==
  {"a", "b", "c", "d", "e", "f", "g", "h", "i", "j", "k", "l", "m",
   "n", "o", "p", "q", "r", "s", "t", "u", "v", "w", "x", "y", "z",
   "A", "B", "C", "D", "E", "F", "G", "H", "I", "J", "K", "L", "M",
   "N", "O", "P", "Q", "R", "S", "T", "U", "V", "W", "X", "Y", "Z"}

\* n written with w digits, zero-padded
RECURSIVE Pad(_, _)
Pad(n, w) == IF w = 0 THEN <<>> ELSE Append(Pad(n \div 10, w - 1), DigitChars[(n % 10) + 1])

\* A clock instant: whole days since 1970-01-01 (UTC) and milliseconds into
\* the day.  The instants lie in the years 1970 to 9999, where toISOString
\* writes the year with four digits.
MaxTick == 2

ClockDays == {0, 58, 19782, 20762, 2932896}

ClockMillis ==
  UNION { {b + k : k \in 0 .. MaxTick} : b \in {0, 998, 45296789, 86399999 - MaxTick} }

Instants == [day : ClockDays, ms : ClockMillis]

Later(a, b) == b.day > a.day \/ (b.day = a.day /\ b.ms > a.ms)

\* the UTC calendar date of a day number (proleptic Gregorian calendar)
DateFromDay(z) ==
  LET era == (z + 719468) \div 146097
      doe == (z + 719468) - era * 146097
      yoe == (doe - (doe \div 1460) + (doe \div 36524) - (doe \div 146096)) \div 365
      doy == doe - (365 * yoe + (yoe \div 4) - (yoe \div 100))
      mp  == (5 * doy + 2) \div 153
      m   == IF mp < 10 THEN mp + 3 ELSE mp - 9
  IN [year  |-> yoe + era * 400 + (IF m <= 2 THEN 1 ELSE 0),
      month |-> m,
      date  |-> doy - ((153 * mp + 2) \div 5) + 1]

\* Date.prototype.toISOString: YYYY-MM-DDTHH:mm:ss.sssZ
toISOString(now) ==
  LET d == DateFromDay(now.day)
  IN Pad(d.year, 4) \o <<"-">> \o Pad(d.month, 2) \o <<"-">> \o Pad(d.date, 2)
       \o <<"T">> \o Pad(now.ms \div 3600000, 2)
       \o <<":">> \o Pad((now.ms \div 60000) % 60, 2)
       \o <<":">> \o Pad((now.ms \div 1000) % 60, 2)
       \o <<".">> \o Pad(now.ms % 1000, 3) \o <<"Z">>

\* .replace(/[:.]/g, '-')
ReplaceColonsAndPeriods(s) ==
  [i \in DOMAIN s |-> IF s[i] \in {":", "."} THEN "-" ELSE s[i]]

\* .replace('T', '_'): the first occurrence only
ReplaceFirstT(s) ==
  [i \in DOMAIN s |->
     IF s[i] = "T" /\ \A j \in 1 .. (i - 1) : s[j] # "T" THEN "_" ELSE s[i]]

\* .slice(0, n)
Slice(s, n) == SubSeq(s, 1, IF Len(s) < n THEN Len(s) ELSE n)

\* the timestamp left whole, milliseconds and zone letter included
generateTimestampedFilename_NoSlice(prefix, extension, now) ==
  prefix \o <<"_">> \o ReplaceFirstT(ReplaceColonsAndPeriods(toISOString(now)))
         \o <<".">> \o extension

\* generateTimestampedFilename(prefix, extension) at the clock reading now
generateTimestampedFilename(prefix, extension, now) ==
  prefix \o <<"_">> \o Slice(ReplaceFirstT(ReplaceColonsAndPeriods(toISOString(now))), 19)
         \o <<".">> \o extension

\* the arguments the export handlers pass
ThyroidAnalysis ==
  <<"t", "h", "y", "r", "o", "i", "d", "_", "a", "n", "a", "l", "y", "s", "i", "s">>

Extensions == {<<"p", "d", "f">>, <<"j", "s", "o", "n">>}

\* one call of generateTimestampedFilename; the clock does not run backwards
\* between two calls
CallGenerateTimestampedFilename ==
  /\ \E extension \in Extensions, now \in Instants :
       /\ lastOp.op = "generateTimestampedFilename" => Later(lastOp.arg.now, now)
       /\ lastOp' = Op("generateTimestampedFilename",
                       [prefix |-> ThyroidAnalysis, extension |-> extension, now |-> now,
                        result |-> generateTimestampedFilename(ThyroidAnalysis, extension, now)])
  /\ UNCHANGED <<ctx, hook, buttons, notices, saved>>

SpecFilename == Init /\ [][CallGenerateTimestampedFilename]_vars

\* ^[a-zA-Z_]+_\d{4}-\d{2}-\d{2}_\d{2}-\d{2}-\d{2}\.(pdf|json)$
\* p is the length of the part matched by [a-zA-Z_]+
MatchesFilenamePattern(f) ==
  \E e \in Extensions :
    LET p == Len(f) - Len(e) - 21
    IN /\ p >= 1
       /\ \A i \in 1 .. p : f[i] \in Letters \cup {"_"}
       /\ f[p + 1] = "_"
       /\ \A i \in {2, 3, 4, 5, 7, 8, 10, 11, 13, 14, 16, 17, 19, 20} :
            \E d \in DOMAIN DigitChars : f[p + i] = DigitChars[d]
       /\ \A i \in {6, 9, 15, 18} : f[p + i] = "-"
       /\ f[p + 12] = "_"
       /\ f[p + 21] = "."
       /\ SubSeq(f, p + 22, Len(f)) = e

\* ------------------------------------------------------------------ C22

\* C22: every filename produced for the prefix thyroid_analysis and the
\* extension pdf or json is the prefix, an underscore, 19 timestamp characters
\* YYYY-MM-DD_HH-MM-SS without colon, period or T, a dot and the extension.
C22_FilenameFormat ==
  lastOp.op = "generateTimestampedFilename" =>
    LET f == lastOp.arg.result
        n == Len(lastOp.arg.prefix)
    IN /\ MatchesFilenamePattern(f)
       /\ SubSeq(f, 1, n) = lastOp.arg.prefix
       /\ Len(f) = n + 1 + 19 + 1 + Len(lastOp.arg.extension)
       /\ \A i \in (n + 2) .. (n + 20) : f[i] \notin {":", ".", "T"}

\* The last millisecond of 2024-02-29 gave thyroid_analysis_2024-02-29_23-59-59.pdf.
C22_Witness ==
  /\ lastOp.op = "generateTimestampedFilename"
  /\ lastOp.arg.now = [day |-> 19782, ms |-> 86399999]
  /\ lastOp.arg.result =
       ThyroidAnalysis \o <<"_", "2", "0", "2", "4", "-", "0", "2", "-", "2", "9", "_",
                            "2", "3", "-", "5", "9", "-", "5", "9", ".", "p", "d", "f">>

\* ------------------------------------------------------------------ C23

\* C23: two calls with the same prefix and extension made at two different
\* clock instants return two different filenames.
C23_DistinctFilenames ==
  [][(/\ lastOp.op = "generateTimestampedFilename"
      /\ lastOp'.op = "generateTimestampedFilename"
      /\ lastOp'.arg.prefix = lastOp.arg.prefix
      /\ lastOp'.arg.extension = lastOp.arg.extension
      /\ lastOp'.arg.now # lastOp.arg.now)
       => lastOp'.arg.result # lastOp.arg.result]_vars

\* ------------------------------------------------------------------ formatFileSize

\* The byte counts: every count within MaxSpread of zero, of each power of
\* 1024 up to 1024^3 and of the upload limit, and some counts in between (1152
\* is 1.125 KB, a rounding tie).  All counts are below 2^31.
MaxSpread == 12

ByteCounts ==
  UNION { {a - d : d \in 0 .. MaxSpread} \cup {a + d : d \in 0 .. MaxSpread} :
            a \in {1024, 1048576, MAX_FILE_SIZE, 1073741824} }
    \cup (0 .. MaxSpread)
    \cup {1152, 1536, 1572864, 1610612736, 2147483647}

\* const sizes = ['Bytes', 'KB', 'MB', 'GB']
sizes == << <<"B", "y", "t", "e", "s">>, <<"K", "B">>, <<"M", "B">>, <<"G", "B">> >>

\* 1024^i
RECURSIVE Pow1024(_)
Pow1024(i) == IF i = 0 THEN 1 ELSE 1024 * Pow1024(i - 1)

\* Math.floor(Math.log(bytes) / Math.log(k)) for 1 <= bytes < 2^31
FloorLog1024(bytes) ==
  IF bytes < 1024 THEN 0
  ELSE IF bytes < 1048576 THEN 1
  ELSE IF bytes < 1073741824 THEN 2
  ELSE 3

\* Math.round((bytes / Math.pow(k, i)) * 100), in hundredths.  bytes / k^i is a
\* binary fraction and exact; its hundredfold is rounded half up.  For i >= 1
\* the division is carried out on bytes = 1024 * q + r to stay within 32 bits.
RoundedHundredths(bytes, i) ==
  IF i = 0 THEN 100 * bytes
  ELSE (200 * (bytes \div 1024) + ((200 * (bytes % 1024)) \div 1024) + Pow1024(i - 1))
         \div (2 * Pow1024(i - 1))

\* Math.floor((bytes / Math.pow(k, i)) * 100): the hundredths below
FlooredHundredths(bytes, i) ==
  IF i = 0 THEN 100 * bytes
  ELSE (100 * (bytes \div 1024) + ((100 * (bytes % 1024)) \div 1024)) \div Pow1024(i - 1)

\* the digits of a natural number
RECURSIVE Digits(_)
Digits(n) == IF n < 10 THEN <<DigitChars[n + 1]>> ELSE Append(Digits(n \div 10), DigitChars[(n % 10) + 1])

\* Number-to-string of h / 100: no trailing zeros, no decimal point for a
\* whole number
NumberToString(h) ==
  Digits(h \div 100)
    \o (IF h % 100 = 0 THEN <<>>
        ELSE IF h % 10 = 0 THEN <<".", DigitChars[((h \div 10) % 10) + 1]>>
        ELSE <<".", DigitChars[((h \div 10) % 10) + 1], DigitChars[(h % 10) + 1]>>)

\* the value cut off after two decimals instead of rounded
formatFileSize_Floors(bytes) ==
  IF bytes = 0 THEN <<"0", " ">> \o sizes[1]
  ELSE NumberToString(FlooredHundredths(bytes, FloorLog1024(bytes)))
         \o <<" ">> \o sizes[FloorLog1024(bytes) + 1]

\* formatFileSize(bytes)
formatFileSize(bytes) ==
  IF bytes = 0 THEN <<"0", " ">> \o sizes[1]
  ELSE NumberToString(RoundedHundredths(bytes, FloorLog1024(bytes)))
         \o <<" ">> \o sizes[FloorLog1024(bytes) + 1]

\* one call of formatFileSize; the session is not involved
CallFormatFileSize ==
  /\ \E bytes \in ByteCounts :
       lastOp' = Op("formatFileSize", [bytes |-> bytes, result |-> formatFileSize(bytes)])
  /\ UNCHANGED <<ctx, hook, buttons, notices, saved>>

SpecFormat == Init /\ [][CallFormatFileSize]_vars

\* ------------------------------------------------------------------ C24

\* h hundredths is the value of bytes / 1024^i rounded to two decimals:
\* (2h - 1) * 1024^i <= 200 * bytes < (2h + 1) * 1024^i, both sides divided by
\* 1024 when i >= 1
NearestHundredth(h, bytes, i) ==
  IF i = 0 THEN h = 100 * bytes
  ELSE LET x == 200 * (bytes \div 1024) + ((200 * (bytes % 1024)) \div 1024)
       IN (2 * h - 1) * Pow1024(i - 1) <= x /\ x < (2 * h + 1) * Pow1024(i - 1)

\* the text is a number with at most two decimals, a space and the unit
Renders(text, h, unit) ==
  /\ text = NumberToString(h) \o <<" ">> \o unit
  /\ Len(text) <= Len(Digits(h \div 100)) + 3 + 1 + Len(unit)
  /\ text[Len(text) - Len(unit) - 1] # "0" \/ h % 100 = 0

\* C24: formatFileSize(0) is '0 Bytes'; a count b with 1024^i <= b < 1024^(i+1)
\* is shown as b / 1024^i rounded to at most two decimals and the unit Bytes,
\* KB, MB, GB for i = 0, 1, 2, 3; 1024 is '1 KB' and 1536 is '1.5 KB'; up to
\* 10 MiB the unit is Bytes, KB or MB.
C24_FormatFileSize ==
  lastOp.op = "formatFileSize" =>
    LET b == lastOp.arg.bytes
        t == lastOp.arg.result
    IN /\ b = 0 => t = <<"0", " ", "B", "y", "t", "e", "s">>
       /\ b = 1024 => t = <<"1", " ", "K", "B">>
       /\ b = 1536 => t = <<"1", ".", "5", " ", "K", "B">>
       /\ b > 0 =>
            \E i \in 0 .. 3 :
              /\ Pow1024(i) <= b
              /\ i < 3 => b < Pow1024(i + 1)
              /\ \E h \in {FlooredHundredths(b, i), FlooredHundredths(b, i) + 1} :
                   /\ NearestHundredth(h, b, i)
                   /\ Renders(t, h, sizes[i + 1])
       /\ b <= 10485760 =>
            \E unit \in {sizes[1], sizes[2], sizes[3]} :
              SubSeq(t, Len(t) - Len(unit) + 1, Len(t)) = unit /\ t[Len(t) - Len(unit)] = " "

\* 1152 bytes, a tie between 1.12 and 1.13, came out as '1.13 KB'.
C24_Witness ==
  /\ lastOp.op = "formatFileSize"
  /\ lastOp.arg.bytes = 1152
  /\ lastOp.arg.result = <<"1", ".", "1", "3", " ", "K", "B">>

\* ------------------------------------------------------------------ C25

\* C25: through the rendered controls, a result that is held was computed for
\* the image that is held; the image does not change while a request is in
\* flight; and a step that changes the image leaves no result.
C25_ResultOfHeldImage ==
  [][/\ predictionResult' # Null => predictionResult'.image = uploadedImage'
     /\ InFlight # {} => uploadedImage' = uploadedImage
     /\ uploadedImage' # uploadedImage => predictionResult' = Null]_vars

\* The second image of the session was analysed and its result is on display.
C25_Witness ==
  /\ lastOp.op = "performAnalysisSuccess"
  /\ nCalls >= 2
  /\ uploadedImage # Null
  /\ uploadedImage.name = "b.jpg"
  /\ predictionResult # Null
  /\ predictionResult.image = uploadedImage

\* ------------------------------------------------------------------ C26

\* C26: through the rendered controls, isLoading is true exactly when one
\* analysis request is outstanding (encoding or awaiting the server), never
\* more than one is, and while isLoading is true an image is held.
C26_LoadingIffOneRequest ==
  /\ isLoading <=> Cardinality(InFlight) = 1
  /\ Cardinality(InFlight) <= 1
  /\ Len(calls) = Cardinality(InFlight)
  /\ isLoading => uploadedImage # Null

\* The request of the second analysis of a session is awaiting the server.
C26_Witness ==
  /\ isLoading
  /\ nCalls = 2
  /\ Len(calls) = 1
  /\ calls[1].pc = "awaiting"
  /\ calls[1].image = uploadedImage

\* ------------------------------------------------------------------ C27

\* C27: whenever isLoading is false, every loading notice that performAnalysis
\* opened has been dismissed by it, after a failure as after a success.
C27_LoadingToastDismissed == ~isLoading => loadingToasts = 0

\* ------------------------------------------------------------------ C28

\* C28: at most one export request is in flight at any time, and loadingPDF
\* or loadingJSON is true exactly when an export request is outstanding.
C28_OneExportInFlight ==
  /\ BagCardinality(exports) <= 1
  /\ (loadingPDF \/ loadingJSON) <=> BagCardinality(exports) = 1

\* ------------------------------------------------------------------ C29

\* C29: a report is saved only while the session still holds the image and
\* the result the export was requested for.
C29_SaveOnlyIfSessionUnchanged ==
  saved # Null =>
    /\ uploadedImage = saved.image
    /\ predictionResult = saved.result

====
